---- MODULE Spec2Model ----
(***************************************************************************)
(* The local notification re-alerting engine of MyCalendarApp              *)
(* (src/lib/notifications.ts): nag campaigns per occurrence key, the       *)
(* stop-state store (in-memory set + AsyncStorage), and the notification   *)
(* response bridge.  Every asynchronous function is cut at its awaits on   *)
(* real I/O (notification adapter, AsyncStorage); the code between two     *)
(* awaits is one atomic step, as on a single-threaded event loop.          *)
(***************************************************************************)
EXTENDS Integers, FiniteSets, Sequences, TLC

\* ---------------------------------------------------------------- bounds
MaxTime == 5        \* the clock (minutes) stops advancing at or after this
MaxCalls == 2       \* startEventNagging calls that can be in flight at once
MaxTimers == 2      \* setInterval handles that can be live at once
MaxFires == 2       \* tick fire requests that can be outstanding at once
MaxWatchTimers == 2 \* watcher timers (and app-state listeners) that can be live
MaxChecks == 1      \* watcher checks that can await the event store at once
MaxOccurrences == 3 \* the count passed to scheduleRepeatingNotification

\* ------------------------------------------------------ program constants
DEFAULT_ALARM_MAX_DURATION_MIN == 5

STOP_REMINDING_ACTION_ID == "STOP_REMINDING"
DEFAULT_ACTION_IDENTIFIER == "expo.modules.notifications.actions.DEFAULT"
OTHER_ACTION_ID == "other"

\* ------------------------------------------------------------ the events
\* dayjs().format("YYYY-MM-DD") during the whole run; the clock "now" counts
\* minutes from 09:00 of that day.
Today == "2024-01-01"
Undefined == "undefined"

NoPayload ==
  [present |-> FALSE, json |-> FALSE, hasEndDate |-> FALSE, hasEndTime |-> FALSE,
   isAllDay |-> FALSE, endValid |-> FALSE, end |-> 0]

RangePayload(end) ==
  [present |-> TRUE, json |-> TRUE, hasEndDate |-> TRUE, hasEndTime |-> TRUE,
   isAllDay |-> FALSE, endValid |-> TRUE, end |-> end]

\* remindOffsetMin and time are optional: {} is undefined, {n} is the value n
\* (time in minutes of the day).
\* "e1" has a reminder; its shape (an alarm, or a schedule with an end) is
\* the event store's content, fixed by Init.
EventIds == {"e1", "e3", "e4"}
EventShapes == {"alarm", "range"}
ReminderIds == {"e1"}

\* The other shapes of "e1": an event with an end in its payload that is
\* not a time range, because of its type or of one field of the payload.
OtherShapes ==
  {"reminderWithEnd", "noPayload", "badJson", "noEndDate", "noEndTime", "allDay",
   "invalidEnd"}

ShapeType(shape) == IF shape = "reminderWithEnd" THEN "reminder" ELSE "schedule"

ShapePayload(shape) ==
  LET full == RangePayload(DEFAULT_ALARM_MAX_DURATION_MIN)
  IN  CASE shape = "noPayload" -> NoPayload
        [] shape = "badJson" -> [full EXCEPT !.json = FALSE]
        [] shape = "noEndDate" -> [full EXCEPT !.hasEndDate = FALSE]
        [] shape = "noEndTime" -> [full EXCEPT !.hasEndTime = FALSE]
        [] shape = "allDay" -> [full EXCEPT !.isAllDay = TRUE]
        [] shape = "invalidEnd" -> [full EXCEPT !.endValid = FALSE]
        [] OTHER -> full

EventOf(id, shape) ==
  CASE id = "e1" /\ shape = "alarm" ->
         [id |-> "e1", date |-> Today, remindOffsetMin |-> {0},
          time |-> {}, repeatRule |-> "none",
          type |-> "reminder", payload |-> NoPayload]
    [] id = "e1" /\ shape = "range" ->
         [id |-> "e1", date |-> Today, remindOffsetMin |-> {DEFAULT_ALARM_MAX_DURATION_MIN},
          time |-> {9 * 60}, repeatRule |-> "none",
          type |-> "schedule", payload |-> RangePayload(DEFAULT_ALARM_MAX_DURATION_MIN)]
    [] id = "e1" ->
         [id |-> "e1", date |-> Today, remindOffsetMin |-> {0},
          time |-> {}, repeatRule |-> "none",
          type |-> ShapeType(shape), payload |-> ShapePayload(shape)]
    [] id = "e3" ->
         [id |-> "e3", date |-> Today, remindOffsetMin |-> {-1},
          time |-> {}, repeatRule |-> "none",
          type |-> "reminder", payload |-> NoPayload]
    [] OTHER ->
         [id |-> "e4", date |-> Today, remindOffsetMin |-> {},
          time |-> {}, repeatRule |-> "none",
          type |-> "reminder", payload |-> NoPayload]

getOccurrenceKey(eventId, date) == <<eventId, date>>

KeyOf(id) == getOccurrenceKey(id, Today)

\* The occurrences that can have a reminder.
Keys == {KeyOf(id) : id \in ReminderIds}

NoKey == <<"", "">>

TimerIds == 1..MaxTimers

\* ----------------------------------------------------------- dates (dayjs)
\* A calendar date is <<year, month, day>>; event.date is its "YYYY-MM-DD"
\* string.  The earliest date of the model is the day before Today.
IsLeapYear(y) == (y % 4 = 0 /\ y % 100 # 0) \/ y % 400 = 0

DaysInMonth(y, m) ==
  IF m = 2 THEN (IF IsLeapYear(y) THEN 29 ELSE 28)
  ELSE IF m \in {4, 6, 9, 11} THEN 30 ELSE 31

Pad2(n) == IF n < 10 THEN "0" \o ToString(n) ELSE ToString(n)

\* .format("YYYY-MM-DD")
FormatDate(ymd) == ToString(ymd[1]) \o "-" \o Pad2(ymd[2]) \o "-" \o Pad2(ymd[3])

NextDay(ymd) ==
  IF ymd[3] < DaysInMonth(ymd[1], ymd[2]) THEN <<ymd[1], ymd[2], ymd[3] + 1>>
  ELSE IF ymd[2] < 12 THEN <<ymd[1], ymd[2] + 1, 1>>
  ELSE <<ymd[1] + 1, 1, 1>>

CalendarStart == <<2023, 12, 31>>

\* The years a date of the model can fall in.
CalendarYears == CalendarStart[1]..(CalendarStart[1] + 1 + MaxOccurrences)

\* Every date of those years with its "YYYY-MM-DD" string.
DateStrings ==
  {<<FormatDate(ymd), ymd>> :
     ymd \in {d \in CalendarYears \X (1..12) \X (1..31) : d[3] <= DaysInMonth(d[1], d[2])}}

\* dayjs(str): the date a well-formed "YYYY-MM-DD" string names.
ParseDate(str) == (CHOOSE p \in DateStrings : p[1] = str)[2]

RECURSIVE DaysBeforeYear(_)
DaysBeforeYear(y) ==
  IF y <= CalendarStart[1] THEN 0
  ELSE (IF IsLeapYear(y - 1) THEN 366 ELSE 365) + DaysBeforeYear(y - 1)

RECURSIVE DaysBeforeMonth(_, _)
DaysBeforeMonth(y, m) ==
  IF m = 1 THEN 0 ELSE DaysInMonth(y, m - 1) + DaysBeforeMonth(y, m - 1)

\* The number of days from the first day of the calendar's first year.
DayOfCalendar(ymd) == DaysBeforeYear(ymd[1]) + DaysBeforeMonth(ymd[1], ymd[2]) + ymd[3]

DayNumber(str) == DayOfCalendar(ParseDate(str))

\* .add(n, "day")
RECURSIVE AddDays(_, _)
AddDays(ymd, n) == IF n = 0 THEN ymd ELSE AddDays(NextDay(ymd), n - 1)

ClampDay(y, m, d) == <<y, m, IF d > DaysInMonth(y, m) THEN DaysInMonth(y, m) ELSE d>>

\* .add(n, "month"): the day is clamped to the length of the target month
AddMonths(ymd, n) ==
  LET total == (ymd[2] - 1) + n
  IN  ClampDay(ymd[1] + (total \div 12), (total % 12) + 1, ymd[3])

\* .add(n, "year")
AddYears(ymd, n) == ClampDay(ymd[1] + n, ymd[2], ymd[3])

\* The clock value of 00:00 of a date: now = 0 is 09:00 of Today.
TodayNumber == DayNumber(Today)

DayStart(date) == (DayNumber(date) - TodayNumber) * (24 * 60) - 9 * 60

buildEventDateTime(event) ==
  IF event.time # {}
  THEN DayStart(event.date) + (CHOOSE t \in event.time : TRUE)
  ELSE DayStart(event.date) + 9 * 60

buildNotifyTime(event) ==
  LET offset == IF event.remindOffsetMin = {} THEN 0
                ELSE CHOOSE n \in event.remindOffsetMin : TRUE
  IN  buildEventDateTime(event) - offset

\* ----------------------------------------------------------------- state
VARIABLES
  eventShape,                         \* the event store: the shape of event "e1"
  now,                                \* Date.now(), in minutes
  activeNags,                         \* Map<string, ActiveNag>
  stoppedOccurrences,                 \* Set<string>
  storage,                            \* AsyncStorage keys "stop-reminding:"+key holding "1"
  notificationCategoriesInitialized,
  timers,                             \* live setInterval handles: id -> closure (key, endAt)
  calls,                              \* startEventNagging calls suspended at an await (a bag)
  fires,                              \* per key: tick fire requests not yet completed
  pendingWrites,                      \* stopEventNagging(.., true) awaiting setItem
  resp,                               \* the response listener's async handler
  stopReturned,                       \* history: keys for which stopOccurrenceNag(key, false) returned
  last,                               \* history: what the step just taken did
  dueWatcherTimer,                    \* TRUE: a handle, FALSE: null
  appStateSubscription,               \* TRUE: a subscription, FALSE: null
  currentAppState,                    \* the module's copy of the app state
  appState,                           \* AppState.currentState, the app's real state
  watchTimers,                        \* live setInterval handles of the watcher
  listeners,                          \* registered AppState "change" listeners
  checks,                             \* runs of check() awaiting getEventsByDate
  storeRule,                          \* the event store: repeatRule of event "s4"
  storeDate,                          \* the event store: date of event "s4"
  scheduled,                          \* the adapter's scheduled notifications, by identifier
  job,                                \* the scheduler call in progress, or the last one
  permission                          \* requestNotificationPermission: its await and its last result

watcherVars == <<dueWatcherTimer, appStateSubscription, currentAppState, appState,
                 watchTimers, listeners, checks>>

schedVars == <<storeRule, storeDate, scheduled, job, permission>>

vars == <<eventShape, now, activeNags, stoppedOccurrences, storage,
          notificationCategoriesInitialized, timers, calls, fires, pendingWrites, resp,
          stopReturned, last, watcherVars, schedVars>>

Event(id) == EventOf(id, eventShape)

\* A suspended call: where it awaits, its event, and the endAt it computed.
\* noop records whether a precondition of the start failed when it was called.
Call(pc, id, endAt, noop) == [pc |-> pc, ev |-> id, endAt |-> endAt, noop |-> noop]

AppStates == {"active", "background"}

IdleResp ==
  [pc |-> "idle", action |-> OTHER_ACTION_ID, key |-> NoKey,
   eventId |-> Undefined, date |-> Undefined]

\* late: a fire was requested at now >= endAt; afterStop: a fire was requested
\* for a key in stopReturned; added: the key was added to stoppedOccurrences.
Step(op, key, out) ==
  [op |-> op, key |-> key, out |-> out, late |-> FALSE, afterStop |-> FALSE, added |-> FALSE]

NoLast == Step("none", NoKey, "none")

NoEvent ==
  [id |-> "", date |-> "", remindOffsetMin |-> {}, time |-> {}, repeatRule |-> "",
   type |-> "", payload |-> NoPayload]

\* A scheduler call: the function called (op), the await it is suspended at
\* (pc), the event of the scheduleEventNotification in progress, the events
\* still to be passed to it, and the events passed to it so far.
Job(op, pc, ev, rest, made) == [op |-> op, pc |-> pc, ev |-> ev, rest |-> rest, made |-> made]

IdleJob == Job("none", "idle", NoEvent, <<>>, <<>>)

\* result: what the last call of requestNotificationPermission returned.
IdlePermission == [pc |-> "idle", result |-> "none"]

\* The module's state when it has just been loaded.
ModuleInit ==
  /\ now = 0
  /\ activeNags = <<>>
  /\ stoppedOccurrences = {}
  /\ storage = {}
  /\ notificationCategoriesInitialized = FALSE
  /\ timers = <<>>
  /\ calls = <<>>
  /\ fires = [k \in Keys |-> 0]
  /\ pendingWrites = {}
  /\ resp = IdleResp
  /\ stopReturned = {}
  /\ last = NoLast
  /\ dueWatcherTimer = FALSE
  /\ appStateSubscription = FALSE
  /\ appState = "active"
  /\ currentAppState = appState
  /\ watchTimers = 0
  /\ listeners = 0
  /\ checks = 0
  /\ scheduled = <<>>
  /\ job = IdleJob
  /\ permission = IdlePermission

\* The state of a process that has just started.
ProcessInit ==
  /\ eventShape \in EventShapes
  /\ ModuleInit

Init ==
  /\ ProcessInit
  /\ storeRule = "weekly"
  /\ storeDate = Today

\* --------------------------------------------------------------- helpers
MapRemove(f, k) == [x \in DOMAIN f \ {k} |-> f[x]]

MapPut(f, k, v) == [x \in DOMAIN f \cup {k} |-> IF x = k THEN v ELSE f[x]]

\* Bags of suspended calls: record -> how many calls are in that position.
BagAdd(b, c) == IF c \in DOMAIN b THEN [b EXCEPT ![c] = @ + 1] ELSE MapPut(b, c, 1)

BagRemove(b, c) == IF b[c] > 1 THEN [b EXCEPT ![c] = @ - 1] ELSE MapRemove(b, c)

RECURSIVE BagSum(_, _)
BagSum(b, S) ==
  IF S = {} THEN 0
  ELSE LET c == CHOOSE x \in S : TRUE IN b[c] + BagSum(b, S \ {c})

InFlight == BagSum(calls, DOMAIN calls)

\* The calls for key that await their first fire.
FirstFires(key) == BagSum(calls, {c \in DOMAIN calls : c.pc = "fire1" /\ KeyOf(c.ev) = key})

\* A stop that leaves the entry and its timer in place.
ClearSlot_KeepsEntry(key) == UNCHANGED <<timers, activeNags>>

\* clearInterval(active.timer); activeNags.delete(occurrenceKey)
ClearSlot(key) ==
  IF key \in DOMAIN activeNags
  THEN /\ timers' = MapRemove(timers, activeNags[key].timer)
       /\ activeNags' = MapRemove(activeNags, key)
  ELSE UNCHANGED <<timers, activeNags>>

\* A stop that records the key and leaves the entry and its timer.
StopSync_KeepsSlot(key) ==
  /\ stoppedOccurrences' = stoppedOccurrences \cup {key}
  /\ UNCHANGED <<timers, activeNags>>

\* A stop that does not record the key in the in-memory set.
StopSync_NoFlag(key) == ClearSlot(key) /\ UNCHANGED stoppedOccurrences

\* stopOccurrenceNag up to its await: clear the timer, delete the entry,
\* add the key to the in-memory set.
StopSync(key) ==
  /\ ClearSlot(key)
  /\ stoppedOccurrences' = stoppedOccurrences \cup {key}

isTimeRangeEvent(event) ==
  IF /\ event.type = "schedule"
     /\ event.payload.present
     /\ event.payload.json
     /\ event.payload.hasEndDate
     /\ event.payload.hasEndTime
     /\ ~event.payload.isAllDay
     /\ event.payload.endValid
  THEN [isRange |-> TRUE, endTime |-> event.payload.end]
  ELSE [isRange |-> FALSE, endTime |-> 0]

\* An end five minutes after the notify time.
calculateNagEndTime_FromNotifyTime(event, t) ==
  LET r == isTimeRangeEvent(event)
  IN  IF r.isRange THEN r.endTime ELSE buildNotifyTime(event) + DEFAULT_ALARM_MAX_DURATION_MIN

\* t is dayjs() at the call.
calculateNagEndTime(event, t) ==
  LET r == isTimeRangeEvent(event)
  IN  IF r.isRange THEN r.endTime ELSE t + DEFAULT_ALARM_MAX_DURATION_MIN

NoReminder(event) ==
  \/ event.remindOffsetMin = {}
  \/ \E n \in event.remindOffsetMin : n < 0

\* ------------------------------------------------------ startEventNagging
\* A start that skips the in-memory fast path.
StoppedInMemory_Skipped(key) == FALSE

\* stoppedOccurrences.has(occurrenceKey), the fast path of isOccurrenceStopped
StoppedInMemory(key) == key \in stoppedOccurrences

\* A read whose failure is taken for "stopped".
ReadIsStopped_FailClosed(key, ok) == ~ok \/ key \in storage

\* A read whose value is never taken for "1".
ReadIsStopped_Never(key, ok) == FALSE

\* const v = await AsyncStorage.getItem(..); v === "1"  (ok: the read did not throw)
ReadIsStopped(key, ok) == ok /\ key \in storage

\* activeNags.has(occurrenceKey)
AlreadyNagging(key) == key \in DOMAIN activeNags

\* Lines 208-238, for the calls in bag b: the Active check, endAt, and the
\* request of the first fire.
AfterStopCheck(b, id, noop) ==
  IF AlreadyNagging(KeyOf(id))
  THEN /\ calls' = b
       /\ last' = Step("start", KeyOf(id), "active")
  ELSE LET endAt == calculateNagEndTime(Event(id), now)
       IN  /\ calls' = BagAdd(b, Call("fire1", id, endAt, noop))
           /\ last' = [Step("start", KeyOf(id), "firstFire") EXCEPT
                         !.late = (now >= endAt),
                         !.afterStop = (KeyOf(id) \in stopReturned)]

\* Lines 200-206 up to the await inside isOccurrenceStopped.
AfterCategories(b, id, noop) ==
  IF StoppedInMemory(KeyOf(id))
  THEN /\ calls' = b
       /\ last' = Step("start", KeyOf(id), "stoppedMemory")
  ELSE /\ calls' = BagAdd(b, Call("read", id, 0, noop))
       /\ last' = NoLast

\* A precondition of startEventNagging fails at the call: no reminder, the
\* occurrence has an entry in activeNags, or its stop flag is in memory.
PreconditionFails(id) ==
  \/ NoReminder(Event(id))
  \/ KeyOf(id) \in DOMAIN activeNags
  \/ KeyOf(id) \in stoppedOccurrences

\* startEventNagging(event) up to its first await on I/O.  With the
\* categories registered, the await of ensureNotificationCategoriesInitialized
\* is a microtask hop only.
CallStart(id) ==
  /\ InFlight < MaxCalls
  /\ IF NoReminder(Event(id))
     THEN /\ last' = Step("start", KeyOf(id), "noReminder")
          /\ UNCHANGED calls
     ELSE IF notificationCategoriesInitialized
          THEN AfterCategories(calls, id, PreconditionFails(id))
          ELSE /\ calls' = BagAdd(calls, Call("cat", id, 0, PreconditionFails(id)))
               /\ last' = NoLast

\* startEventNagging(event) is called by the received listener or any importer.
StartCall(id) ==
  /\ CallStart(id)
  /\ UNCHANGED <<eventShape, now, activeNags, stoppedOccurrences, storage,
                 notificationCategoriesInitialized, timers, fires, pendingWrites,
                 resp, stopReturned>>
  /\ UNCHANGED <<watcherVars, schedVars>>

\* setNotificationCategoryAsync completes (ok) or throws (caught).
StartCategoriesDone(c, ok) ==
  /\ c \in DOMAIN calls
  /\ c.pc = "cat"
  /\ notificationCategoriesInitialized' = (notificationCategoriesInitialized \/ ok)
  /\ AfterCategories(BagRemove(calls, c), c.ev, c.noop)
  /\ UNCHANGED <<eventShape, now, activeNags, stoppedOccurrences, storage, timers, fires,
                 pendingWrites, resp, stopReturned>>
  /\ UNCHANGED <<watcherVars, schedVars>>

\* AsyncStorage.getItem completes (ok) or throws (caught, "not stopped").
StartReadDone(c, ok) ==
  /\ c \in DOMAIN calls
  /\ c.pc = "read"
  /\ IF ReadIsStopped(KeyOf(c.ev), ok)
     THEN /\ stoppedOccurrences' = stoppedOccurrences \cup {KeyOf(c.ev)}
          /\ calls' = BagRemove(calls, c)
          /\ last' = [Step("start", KeyOf(c.ev), "stoppedStorage") EXCEPT
                        !.added = (KeyOf(c.ev) \notin stoppedOccurrences)]
     ELSE /\ AfterStopCheck(BagRemove(calls, c), c.ev, c.noop)
          /\ UNCHANGED stoppedOccurrences
  /\ UNCHANGED <<eventShape, now, activeNags, storage, notificationCategoriesInitialized,
                 timers, fires, pendingWrites, resp, stopReturned>>
  /\ UNCHANGED <<watcherVars, schedVars>>

FreeTimerIds == TimerIds \ DOMAIN timers

\* The first fire completed or threw (caught): setInterval, activeNags.set.
StartFirstFireDone(c, ok) ==
  /\ c \in DOMAIN calls
  /\ c.pc = "fire1"
  /\ FreeTimerIds # {}
  /\ LET t == CHOOSE i \in FreeTimerIds : \A j \in FreeTimerIds : i <= j
     IN  /\ timers' = MapPut(timers, t, [key |-> KeyOf(c.ev), endAt |-> c.endAt])
         /\ activeNags' = MapPut(activeNags, KeyOf(c.ev),
                                 [timer |-> t, sending |-> FALSE, endAt |-> c.endAt])
  /\ calls' = BagRemove(calls, c)
  /\ last' = Step("start", KeyOf(c.ev), "started")
  /\ UNCHANGED <<eventShape, now, stoppedOccurrences, storage,
                 notificationCategoriesInitialized, fires, pendingWrites, resp,
                 stopReturned>>
  /\ UNCHANGED <<watcherVars, schedVars>>

\* ------------------------------------------------------- the timer's tick
\* One run of the setInterval callback of timer t (lines 241-290).
TimerTick(t) ==
  /\ t \in DOMAIN timers
  /\ LET key == timers[t].key
         endAt == timers[t].endAt
     IN  IF now >= endAt
         THEN /\ StopSync(key)
              /\ stopReturned' = stopReturned \cup {key}
              /\ last' = [Step("tick", key, "expired") EXCEPT
                            !.added = (key \notin stoppedOccurrences)]
              /\ UNCHANGED fires
         ELSE IF key \in stoppedOccurrences
         THEN /\ ClearSlot(key)
              /\ last' = Step("tick", key, "stopSeen")
              /\ UNCHANGED <<stoppedOccurrences, stopReturned, fires>>
         ELSE IF key \notin DOMAIN activeNags \/ activeNags[key].sending
         THEN /\ last' = Step("tick", key, "skip")
              /\ UNCHANGED <<activeNags, timers, stoppedOccurrences, stopReturned, fires>>
         ELSE /\ fires[key] < MaxFires
              /\ activeNags' = [activeNags EXCEPT ![key].sending = TRUE]
              /\ fires' = [fires EXCEPT ![key] = @ + 1]
              /\ last' = [Step("tick", key, "fire") EXCEPT
                            !.late = (now >= endAt),
                            !.afterStop = (key \in stopReturned)]
              /\ UNCHANGED <<timers, stoppedOccurrences, stopReturned>>
  /\ UNCHANGED <<eventShape, now, storage, notificationCategoriesInitialized, calls,
                 pendingWrites, resp>>
  /\ UNCHANGED <<watcherVars, schedVars>>

\* A finally block that leaves the sending flag set.
ClearSending_Kept(key) == activeNags

\* const still = activeNags.get(occurrenceKey); if (still) still.sending = false
ClearSending(key) ==
  IF key \in DOMAIN activeNags
  THEN [activeNags EXCEPT ![key].sending = FALSE]
  ELSE activeNags

\* A tick's scheduleNotificationAsync completed or threw (caught): the
\* finally block.
TickFireDone(key, ok) ==
  /\ fires[key] > 0
  /\ fires' = [fires EXCEPT ![key] = @ - 1]
  /\ activeNags' = ClearSending(key)
  /\ last' = Step("tickFire", key, IF ok THEN "sent" ELSE "failed")
  /\ UNCHANGED <<eventShape, now, stoppedOccurrences, storage,
                 notificationCategoriesInitialized, timers, calls, pendingWrites, resp,
                 stopReturned>>
  /\ UNCHANGED <<watcherVars, schedVars>>

\* ------------------------------------------------------- stopEventNagging
\* stopEventNagging(eventId, date, persist) up to the await of setItem.
StopEventNagging(key, persist) ==
  /\ StopSync(key)
  /\ IF persist
     THEN /\ pendingWrites' = pendingWrites \cup {key}
          /\ UNCHANGED stopReturned
     ELSE /\ stopReturned' = stopReturned \cup {key}
          /\ UNCHANGED pendingWrites
  /\ last' = [Step("stop", key, IF persist THEN "persist" ELSE "memory") EXCEPT
                !.added = (key \notin stoppedOccurrences)]
  /\ UNCHANGED <<eventShape, now, storage, notificationCategoriesInitialized, calls, fires,
                 resp>>
  /\ UNCHANGED <<watcherVars, schedVars>>

\* AsyncStorage.setItem completed or threw (caught).
StopWriteDone(key, ok) ==
  /\ key \in pendingWrites
  /\ pendingWrites' = pendingWrites \ {key}
  /\ storage' = IF ok THEN storage \cup {key} ELSE storage
  /\ last' = NoLast
  /\ UNCHANGED <<eventShape, now, activeNags, stoppedOccurrences,
                 notificationCategoriesInitialized, timers, calls, fires, resp,
                 stopReturned>>
  /\ UNCHANGED <<watcherVars, schedVars>>

\* ------------------------------------------- addNotificationResponseListener
\* The data a delivered alert can carry: the engine's own alerts carry
\* {eventId, date, occurrenceKey}; other alerts of the app carry less.
NoData == [eventId |-> Undefined, date |-> Undefined, occurrenceKey |-> NoKey]

DataSet ==
  {[eventId |-> "e1", date |-> Today, occurrenceKey |-> KeyOf("e1")],
   [eventId |-> "e1", date |-> Today, occurrenceKey |-> NoKey],
   [eventId |-> "e1", date |-> Undefined, occurrenceKey |-> NoKey],
   NoData}

ActionIds == {STOP_REMINDING_ACTION_ID, DEFAULT_ACTION_IDENTIFIER, OTHER_ACTION_ID}

\* data?.eventId && data?.date
HasOccurrence(data) == data.eventId # Undefined /\ data.date # Undefined

\* data.occurrenceKey ?? getOccurrenceKey(String(data.eventId), String(data.date))
ResolveKey(data) ==
  IF data.occurrenceKey # NoKey THEN data.occurrenceKey
  ELSE getOccurrenceKey(data.eventId, data.date)

\* A handler that navigates on the stop action too.
ShouldNavigate_AnyAction(action, eventId) == eventId # Undefined

\* if (data?.eventId) callback(data.eventId, data.date), on the default tap only
ShouldNavigate(action, eventId) ==
  action = DEFAULT_ACTION_IDENTIFIER /\ eventId # Undefined

\* The first dismissal call of each branch.
DismissStage(action) ==
  IF action = STOP_REMINDING_ACTION_ID THEN "dismissOne" ELSE "dismissAll"

\* The listener runs for a response: up to the first await.
RespDeliver(action, data) ==
  /\ resp.pc = "idle"
  /\ IF action \notin {STOP_REMINDING_ACTION_ID, DEFAULT_ACTION_IDENTIFIER}
     THEN /\ last' = Step("respDone", NoKey, "ignored")
          /\ UNCHANGED <<resp, activeNags, timers, stoppedOccurrences>>
     ELSE IF HasOccurrence(data)
     THEN /\ StopSync(ResolveKey(data))
          /\ resp' = [pc |-> "write", action |-> action, key |-> ResolveKey(data),
                      eventId |-> data.eventId, date |-> data.date]
          /\ last' = [Step("respStop", ResolveKey(data), "persist") EXCEPT
                        !.added = (ResolveKey(data) \notin stoppedOccurrences)]
     ELSE /\ resp' = [pc |-> DismissStage(action), action |-> action, key |-> NoKey,
                      eventId |-> data.eventId, date |-> data.date]
          /\ last' = NoLast
          /\ UNCHANGED <<activeNags, timers, stoppedOccurrences>>
  /\ UNCHANGED <<eventShape, now, storage, notificationCategoriesInitialized, calls, fires,
                 pendingWrites, stopReturned>>
  /\ UNCHANGED <<watcherVars, schedVars>>

\* setItem of the handler's stopOccurrenceNag(key, true) completed or threw.
RespWriteDone(ok) ==
  /\ resp.pc = "write"
  /\ storage' = IF ok THEN storage \cup {resp.key} ELSE storage
  /\ resp' = [resp EXCEPT !.pc = DismissStage(resp.action)]
  /\ last' = Step("respStopDone", resp.key, IF ok THEN "ok" ELSE "failed")
  /\ UNCHANGED <<eventShape, now, activeNags, stoppedOccurrences,
                 notificationCategoriesInitialized, timers, calls, fires, pendingWrites,
                 stopReturned>>
  /\ UNCHANGED <<watcherVars, schedVars>>

\* dismissNotificationAsync(notificationId) of the stop branch completed or threw.
RespDismissOneDone(ok) ==
  /\ resp.pc = "dismissOne"
  /\ IF ok
     THEN /\ resp' = [resp EXCEPT !.pc = "dismissAll"]
          /\ last' = NoLast
     ELSE /\ resp' = IdleResp
          /\ last' = Step("respDone", NoKey, "noNav")
  /\ UNCHANGED <<eventShape, now, activeNags, stoppedOccurrences, storage,
                 notificationCategoriesInitialized, timers, calls, fires, pendingWrites,
                 stopReturned>>
  /\ UNCHANGED <<watcherVars, schedVars>>

\* dismissAllNotificationsAsync completed or threw; the default tap then navigates.
RespDismissAllDone(ok) ==
  /\ resp.pc = "dismissAll"
  /\ resp' = IdleResp
  /\ last' = IF ShouldNavigate(resp.action, resp.eventId)
             THEN Step("respDone", <<resp.eventId, resp.date>>, "nav")
             ELSE Step("respDone", NoKey, "noNav")
  /\ UNCHANGED <<eventShape, now, activeNags, stoppedOccurrences, storage,
                 notificationCategoriesInitialized, timers, calls, fires, pendingWrites,
                 stopReturned>>
  /\ UNCHANGED <<watcherVars, schedVars>>

\* ---------------------------------------------------------- the due watcher
\* A watcher that does not look at dueWatcherTimer.
WatcherRunning_Ignored == FALSE

\* if (dueWatcherTimer) return
WatcherRunning == dueWatcherTimer

\* currentAppState === "active"
GateOpen == currentAppState = "active"

\* check() up to its await of getEventsByDate.
CheckBegin ==
  IF GateOpen
  THEN /\ checks < MaxChecks
       /\ checks' = checks + 1
  ELSE UNCHANGED checks

\* now.isAfter(notifyTime) && now.isBefore(nagEndTime)
ShouldStartNow(event) ==
  /\ now > buildNotifyTime(event)
  /\ now < calculateNagEndTime(event, now)

\* startDueEventWatcher(): the listener, the interval and the first check.
StartDueEventWatcher ==
  /\ IF WatcherRunning
     THEN /\ last' = Step("watcher", NoKey, "running")
          /\ UNCHANGED <<watcherVars, schedVars>>
     ELSE /\ listeners < MaxWatchTimers
          /\ watchTimers < MaxWatchTimers
          /\ appStateSubscription' = TRUE
          /\ listeners' = listeners + 1
          /\ dueWatcherTimer' = TRUE
          /\ watchTimers' = watchTimers + 1
          /\ CheckBegin
          /\ last' = Step("watcher", NoKey, "started")
          /\ UNCHANGED <<currentAppState, appState>>
  /\ UNCHANGED <<eventShape, now, activeNags, stoppedOccurrences, storage,
                 notificationCategoriesInitialized, timers, calls, fires, pendingWrites,
                 resp, stopReturned>>
  /\ UNCHANGED schedVars

\* stopDueEventWatcher()
StopDueEventWatcher ==
  /\ IF dueWatcherTimer
     THEN /\ watchTimers' = watchTimers - 1
          /\ dueWatcherTimer' = FALSE
     ELSE UNCHANGED <<watchTimers, dueWatcherTimer>>
  /\ IF appStateSubscription
     THEN /\ listeners' = listeners - 1
          /\ appStateSubscription' = FALSE
     ELSE UNCHANGED <<listeners, appStateSubscription>>
  /\ last' = Step("watcher", NoKey, IF dueWatcherTimer THEN "stopped" ELSE "idle")
  /\ UNCHANGED <<currentAppState, appState, checks>>
  /\ UNCHANGED <<eventShape, now, activeNags, stoppedOccurrences, storage,
                 notificationCategoriesInitialized, timers, calls, fires, pendingWrites,
                 resp, stopReturned>>
  /\ UNCHANGED schedVars

\* The app moves to the foreground or the background; a registered listener
\* copies the new state.
AppStateChange(state) ==
  /\ state # appState
  /\ appState' = state
  /\ currentAppState' = IF listeners > 0 THEN state ELSE currentAppState
  /\ last' = NoLast
  /\ UNCHANGED <<dueWatcherTimer, appStateSubscription, watchTimers, listeners, checks>>
  /\ UNCHANGED <<eventShape, now, activeNags, stoppedOccurrences, storage,
                 notificationCategoriesInitialized, timers, calls, fires, pendingWrites,
                 resp, stopReturned>>
  /\ UNCHANGED schedVars

\* The watcher's interval fires: void check().
WatcherTick ==
  /\ watchTimers > 0
  /\ CheckBegin
  /\ last' = Step("watcherTick", NoKey, IF GateOpen THEN "load" ELSE "gated")
  /\ UNCHANGED <<dueWatcherTimer, appStateSubscription, currentAppState, appState,
                 watchTimers, listeners>>
  /\ UNCHANGED <<eventShape, now, activeNags, stoppedOccurrences, storage,
                 notificationCategoriesInitialized, timers, calls, fires, pendingWrites,
                 resp, stopReturned>>
  /\ UNCHANGED schedVars

\* getEventsByDate(today) returned the events of today (ok) or threw: the
\* loop over the events.  Only "e1" has a reminder; the others are skipped
\* by the loop's continue.  check() has no try: when the load throws, the
\* promise of "void check()" is rejected and nothing handles it.
WatcherLoaded(ok) ==
  /\ checks > 0
  /\ checks' = checks - 1
  /\ IF ok /\ ShouldStartNow(Event("e1"))
     THEN CallStart("e1")
     ELSE /\ last' = IF ok THEN NoLast ELSE Step("watcherTick", NoKey, "rejected")
          /\ UNCHANGED calls
  /\ UNCHANGED <<dueWatcherTimer, appStateSubscription, currentAppState, appState,
                 watchTimers, listeners>>
  /\ UNCHANGED <<eventShape, now, activeNags, stoppedOccurrences, storage,
                 notificationCategoriesInitialized, timers, fires, pendingWrites, resp,
                 stopReturned>>
  /\ UNCHANGED schedVars

\* -------------------------------------------------------------- scheduler
\* The events getAllEvents returns, in order.  "s1" is tomorrow's, "s2"
\* yesterday's, "s3" is today's at 08:00 (its notify time has passed), "s4"
\* has the rule and the date the store was given, "s5" has no reminder.
StoredIds == {"s1", "s2", "s3", "s4", "s5"}
StoreOrder == <<"s1", "s2", "s3", "s4", "s5">>
\* The events the user edits, repeats or deletes.
RepeatIds == {"s1", "s4"}
RepeatRules == {"", "none", "daily", "weekly", "monthly", "yearly"}
BaseDates == {Today, "2024-01-31"}

StoredEventOf(id, rule, date) ==
  CASE id = "s1" ->
         [id |-> "s1", date |-> "2024-01-02", remindOffsetMin |-> {0},
          time |-> {}, repeatRule |-> "none",
          type |-> "reminder", payload |-> NoPayload]
    [] id = "s2" ->
         [id |-> "s2", date |-> "2023-12-31", remindOffsetMin |-> {0},
          time |-> {}, repeatRule |-> "none",
          type |-> "reminder", payload |-> NoPayload]
    [] id = "s3" ->
         [id |-> "s3", date |-> Today, remindOffsetMin |-> {0},
          time |-> {8 * 60}, repeatRule |-> "none",
          type |-> "reminder", payload |-> NoPayload]
    [] id = "s4" ->
         [id |-> "s4", date |-> date, remindOffsetMin |-> {0},
          time |-> {}, repeatRule |-> rule,
          type |-> "reminder", payload |-> NoPayload]
    [] OTHER ->
         [id |-> "s5", date |-> "2024-01-02", remindOffsetMin |-> {},
          time |-> {}, repeatRule |-> "none",
          type |-> "reminder", payload |-> NoPayload]

\* The row of the events table with this id.
StoredEvent(id) == IF id \in EventIds THEN Event(id) ELSE StoredEventOf(id, storeRule, storeDate)

\* An identifier that does not depend on the event.
getNotificationId_Shared(eventId) == "event-"

getNotificationId(eventId) == "event-" \o eventId

\* The request scheduleEventNotification passes to scheduleNotificationAsync:
\* its data and its DATE trigger (at).
ScheduleRequest(event) ==
  [eventId |-> event.id, date |-> event.date,
   occurrenceKey |-> getOccurrenceKey(event.id, event.date),
   at |-> buildNotifyTime(event)]

\* A fan-out whose occurrences all fall on the base date.
NextDate_BaseOnly(rule, baseDate, i) == baseDate

\* The switch of scheduleRepeatingNotification: baseDate.add(i, unit).
NextDate(rule, baseDate, i) ==
  CASE rule = "daily" -> AddDays(baseDate, i)
    [] rule = "weekly" -> AddDays(baseDate, 7 * i)
    [] rule = "monthly" -> AddMonths(baseDate, i)
    [] OTHER -> AddYears(baseDate, i)

\* const tempEvent = {...event, id: `${event.id}-repeat-${i}`, date: ...}
TempEvent(event, i) ==
  [event EXCEPT !.id = event.id \o "-repeat-" \o ToString(i),
                !.date = FormatDate(NextDate(event.repeatRule, ParseDate(event.date), i))]

\* The events scheduleRepeatingNotification(event, count) passes to
\* scheduleEventNotification, in order.
RepeatEvents(event, count) ==
  IF event.repeatRule \in {"", "none"} THEN <<event>>
  ELSE IF event.repeatRule \in {"daily", "weekly", "monthly", "yearly"}
       THEN [n \in 1..count |-> TempEvent(event, n - 1)]
       ELSE <<>>

\* e.date >= today
IsFutureEvent(event) == DayNumber(event.date) >= TodayNumber

\* events.filter((e) => e.date >= today)
FutureEvents ==
  SelectSeq([n \in 1..Len(StoreOrder) |-> StoredEvent(StoreOrder[n])], IsFutureEvent)

\* scheduleEventNotification is called for each of events in turn, up to the
\* first await on I/O: a call that returns null before it (no reminder, or a
\* notify time in the past) is followed by the next one.  init is
\* notificationCategoriesInitialized.
RECURSIVE EnterOne(_, _, _, _)
RECURSIVE AfterEnsure(_, _, _, _, _)
EnterOne(op, events, made, init) ==
  IF events = <<>> THEN Job(op, "done", NoEvent, <<>>, made)
  ELSE LET event == Head(events)
           made2 == Append(made, event)
       IN  IF NoReminder(event) THEN EnterOne(op, Tail(events), made2, init)
           ELSE IF ~init THEN Job(op, "cat", event, Tail(events), made2)
           ELSE AfterEnsure(op, event, Tail(events), made2, init)

\* Lines 446-455: notifyTime.isBefore(dayjs()), then the cancel is requested.
AfterEnsure(op, event, rest, made, init) ==
  IF buildNotifyTime(event) < now THEN EnterOne(op, rest, made, init)
  ELSE Job(op, "cancel", event, rest, made)

\* No scheduler call is in progress.
SchedIdle == job.pc \in {"idle", "done", "failed"}

SchedFrame ==
  UNCHANGED <<eventShape, now, activeNags, stoppedOccurrences, storage, timers, calls,
              fires, pendingWrites, resp, stopReturned, last, watcherVars,
              storeRule, storeDate, permission>>

\* scheduleEventNotification(event) is called.
ScheduleEventNotification(id) ==
  /\ SchedIdle
  /\ job' = EnterOne("one", <<StoredEvent(id)>>, <<>>, notificationCategoriesInitialized)
  /\ UNCHANGED <<scheduled, notificationCategoriesInitialized>>
  /\ SchedFrame

\* scheduleRepeatingNotification(event, MaxOccurrences) is called.
ScheduleRepeatingNotification(id) ==
  /\ SchedIdle
  /\ job' = EnterOne("repeat", RepeatEvents(StoredEvent(id), MaxOccurrences), <<>>,
                     notificationCategoriesInitialized)
  /\ UNCHANGED <<scheduled, notificationCategoriesInitialized>>
  /\ SchedFrame

\* scheduleAllEventNotifications() is called: await getAllEvents(db).
ScheduleAllEventNotifications ==
  /\ SchedIdle
  /\ job' = Job("all", "load", NoEvent, <<>>, <<>>)
  /\ UNCHANGED <<scheduled, notificationCategoriesInitialized>>
  /\ SchedFrame

\* The festival of tomorrow and the identifier of its reminder, which
\* scheduleFestivalReminders schedules for 21:00 of the day before.
REMINDER_HOUR == 21
FestivalReminderDate == Today
FestivalDate == FormatDate(AddDays(ParseDate(FestivalReminderDate), 1))
FestivalNotificationId == "festival-" \o FestivalDate
SpecialReminderIds == {FestivalNotificationId}
FestivalRequest == [at |-> DayStart(FestivalReminderDate) + REMINDER_HOUR * 60]

\* A cancel-all that spares the notifications of special-reminders.ts.
cancelAllNotifications_OwnOnly(sched) ==
  [x \in DOMAIN sched \cap SpecialReminderIds |-> sched[x]]

\* cancelAllScheduledNotificationsAsync(): nothing stays scheduled.
cancelAllNotifications(sched) == <<>>

\* getAllEvents returned (ok) or threw (caught by the outer try): the filter,
\* then await cancelAllNotifications().
AllLoaded(ok) ==
  /\ job.pc = "load"
  /\ job' = IF ok THEN Job("all", "cancelAll", NoEvent, FutureEvents, <<>>)
            ELSE Job("all", "failed", NoEvent, <<>>, <<>>)
  /\ UNCHANGED <<scheduled, notificationCategoriesInitialized>>
  /\ SchedFrame

\* cancelAllScheduledNotificationsAsync completed (ok) or threw (caught by
\* the outer try): the loop over futureEvents.
AllCancelled(ok) ==
  /\ job.pc = "cancelAll"
  /\ IF ok
     THEN /\ scheduled' = cancelAllNotifications(scheduled)
          /\ job' = EnterOne("all", job.rest, <<>>, notificationCategoriesInitialized)
     ELSE /\ job' = Job("all", "failed", NoEvent, <<>>, <<>>)
          /\ UNCHANGED scheduled
  /\ last' = Step("cancelAll", NoKey,
                  IF ~ok THEN "failed"
                  ELSE IF SpecialReminderIds \cap DOMAIN scheduled # {} THEN "special"
                  ELSE "cancelled")
  /\ UNCHANGED notificationCategoriesInitialized
  /\ UNCHANGED <<eventShape, now, activeNags, stoppedOccurrences, storage, timers, calls,
                 fires, pendingWrites, resp, stopReturned, watcherVars,
                 storeRule, storeDate, permission>>

\* setNotificationCategoryAsync completes (ok) or throws (caught).
OneCategoriesDone(ok) ==
  /\ job.pc = "cat"
  /\ notificationCategoriesInitialized' = (notificationCategoriesInitialized \/ ok)
  /\ job' = AfterEnsure(job.op, job.ev, job.rest, job.made,
                        notificationCategoriesInitialized \/ ok)
  /\ UNCHANGED scheduled
  /\ SchedFrame

\* cancelScheduledNotificationAsync completes (ok) or throws (ignored): the
\* schedule is requested.
OneCancelDone(ok) ==
  /\ job.pc = "cancel"
  /\ scheduled' = IF ok THEN MapRemove(scheduled, getNotificationId(job.ev.id))
                  ELSE scheduled
  /\ job' = [job EXCEPT !.pc = "schedule"]
  /\ UNCHANGED notificationCategoriesInitialized
  /\ SchedFrame

\* scheduleNotificationAsync completes (ok: a request with the identifier of
\* a scheduled one replaces it) or throws (caught, null).
OneScheduleDone(ok) ==
  /\ job.pc = "schedule"
  /\ scheduled' = IF ok
                  THEN MapPut(scheduled, getNotificationId(job.ev.id), ScheduleRequest(job.ev))
                  ELSE scheduled
  /\ job' = EnterOne(job.op, job.rest, job.made, notificationCategoriesInitialized)
  /\ UNCHANGED notificationCategoriesInitialized
  /\ SchedFrame

\* A cancel that removes every notification made for the event, its
\* fan-out included.
CancelledBy_WithFanOut(id) ==
  {x \in DOMAIN scheduled :
     x = getNotificationId(id)
       \/ \E n \in 0..(MaxOccurrences - 1) : x = getNotificationId(TempEvent(StoredEvent(id), n).id)}

\* cancelScheduledNotificationAsync(getNotificationId(eventId)): the
\* identifiers it removes.
CancelledBy(id) == {getNotificationId(id)} \cap DOMAIN scheduled

\* cancelEventNotification(id), called when the event is deleted or edited:
\* the adapter cancels (ok) or throws (ignored).
CancelEventNotification(id, ok) ==
  /\ scheduled' = IF ok THEN [x \in DOMAIN scheduled \ CancelledBy(id) |-> scheduled[x]]
                  ELSE scheduled
  /\ last' = Step("cancel", getOccurrenceKey(id, ""), IF ok THEN "cancelled" ELSE "failed")
  /\ UNCHANGED <<job, notificationCategoriesInitialized>>
  /\ UNCHANGED <<eventShape, now, activeNags, stoppedOccurrences, storage, timers, calls,
                 fires, pendingWrites, resp, stopReturned, watcherVars,
                 storeRule, storeDate, permission>>

\* One iteration of the loop of scheduleFestivalReminders for the festival
\* of tomorrow: the reminder time has not passed, the cancel of its
\* identifier completes (cancelled) or throws (ignored), then the schedule
\* completes (ok) or throws (caught).
ScheduleFestivalReminder(cancelled, ok) ==
  /\ FestivalRequest.at >= now
  /\ scheduled' = IF ok THEN MapPut(scheduled, FestivalNotificationId, FestivalRequest)
                  ELSE IF cancelled THEN MapRemove(scheduled, FestivalNotificationId)
                  ELSE scheduled
  /\ UNCHANGED <<job, notificationCategoriesInitialized>>
  /\ SchedFrame

\* ------------------------------------------------------------ permission
PermissionFrame ==
  UNCHANGED <<eventShape, now, activeNags, stoppedOccurrences, storage, timers, calls,
              fires, pendingWrites, resp, stopReturned, last, watcherVars,
              storeRule, storeDate, scheduled, job>>

PermissionStatuses == {"granted", "denied", "throws"}

\* requestNotificationPermission() is called: await getPermissionsAsync().
RequestNotificationPermission ==
  /\ permission.pc = "idle"
  /\ permission' = [permission EXCEPT !.pc = "get"]
  /\ UNCHANGED notificationCategoriesInitialized
  /\ PermissionFrame

\* After finalStatus is "granted": the Android channel is requested.
PermissionGranted == [permission EXCEPT !.pc = "channel"]

\* getPermissionsAsync answered, or threw (caught, false).
PermissionGot(status) ==
  /\ permission.pc = "get"
  /\ permission' = CASE status = "granted" -> PermissionGranted
                     [] status = "denied" -> [permission EXCEPT !.pc = "request"]
                     [] OTHER -> [pc |-> "idle", result |-> "false"]
  /\ UNCHANGED notificationCategoriesInitialized
  /\ PermissionFrame

\* requestPermissionsAsync answered, or threw (caught, false).
PermissionAsked(status) ==
  /\ permission.pc = "request"
  /\ permission' = IF status = "granted" THEN PermissionGranted
                   ELSE [pc |-> "idle", result |-> "false"]
  /\ UNCHANGED notificationCategoriesInitialized
  /\ PermissionFrame

\* On Android: setNotificationChannelAsync completed, or threw (caught, false): the
\* categories are registered unless they already are.
PermissionChannelDone(ok) ==
  /\ permission.pc = "channel"
  /\ permission' = IF ~ok THEN [pc |-> "idle", result |-> "false"]
                   ELSE IF notificationCategoriesInitialized
                        THEN [pc |-> "idle", result |-> "true"]
                        ELSE [permission EXCEPT !.pc = "cat"]
  /\ UNCHANGED notificationCategoriesInitialized
  /\ PermissionFrame

\* setNotificationCategoryAsync completes (ok) or throws (caught): true.
PermissionCategoriesDone(ok) ==
  /\ permission.pc = "cat"
  /\ notificationCategoriesInitialized' = (notificationCategoriesInitialized \/ ok)
  /\ permission' = [pc |-> "idle", result |-> "true"]
  /\ PermissionFrame

\* ------------------------------------------------------ received listener
\* getEventById(db, eventId): the row with that id, or none (null).
getEventById(eventId) ==
  IF eventId \in EventIds \cup StoredIds THEN {StoredEvent(eventId)} ELSE {}

\* The identifiers of the notifications whose delivery is observed: the one
\* of event "e1" and the fan-out of the repeating event "s4".
ReceivedIds ==
  {getNotificationId("e1")}
    \cup {getNotificationId(TempEvent(StoredEvent("s4"), n).id) : n \in 0..(MaxOccurrences - 1)}

\* A scheduled notification is delivered at or after its trigger date and
\* the received listener runs: the lookup of the event (ok: it did not
\* throw), then startEventNagging(event) up to its first await on I/O.
NotificationReceived(x, ok) ==
  /\ x \in DOMAIN scheduled
  /\ scheduled[x].at <= now
  /\ scheduled' = MapRemove(scheduled, x)
  /\ LET found == IF ok THEN getEventById(scheduled[x].eventId) ELSE {}
     IN  IF found # {} /\ ~NoReminder(CHOOSE e \in found : TRUE)
         THEN CallStart((CHOOSE e \in found : TRUE).id)
         ELSE /\ last' = NoLast
              /\ UNCHANGED calls
  /\ UNCHANGED <<eventShape, now, activeNags, stoppedOccurrences, storage,
                 notificationCategoriesInitialized, timers, fires, pendingWrites, resp,
                 stopReturned, watcherVars, storeRule, storeDate, job, permission>>

\* ------------------------------------------------------------ environment
\* Time is observed in steps of the alarm duration.
AdvanceTime ==
  /\ now < MaxTime
  /\ now' = now + DEFAULT_ALARM_MAX_DURATION_MIN
  /\ last' = NoLast
  /\ UNCHANGED <<eventShape, activeNags, stoppedOccurrences, storage,
                 notificationCategoriesInitialized, timers, calls, fires, pendingWrites,
                 resp, stopReturned>>
  /\ UNCHANGED <<watcherVars, schedVars>>

\* The process is killed and started again: module state is re-initialised,
\* AsyncStorage is kept.
Restart ==
  /\ activeNags' = <<>>
  /\ stoppedOccurrences' = {}
  /\ notificationCategoriesInitialized' = FALSE
  /\ timers' = <<>>
  /\ calls' = <<>>
  /\ fires' = [k \in Keys |-> 0]
  /\ pendingWrites' = {}
  /\ resp' = IdleResp
  /\ stopReturned' = {}
  /\ last' = Step("restart", NoKey, "fresh")
  /\ dueWatcherTimer' = FALSE
  /\ appStateSubscription' = FALSE
  /\ currentAppState' = appState
  /\ watchTimers' = 0
  /\ listeners' = 0
  /\ checks' = 0
  /\ job' = IdleJob
  /\ permission' = IdlePermission
  /\ UNCHANGED <<eventShape, now, storage, appState, storeRule, storeDate, scheduled>>

Next ==
  \/ AdvanceTime
  \/ \E id \in EventIds : StartCall(id)
  \/ \E c \in DOMAIN calls, ok \in BOOLEAN : StartCategoriesDone(c, ok)
  \/ \E c \in DOMAIN calls, ok \in BOOLEAN : StartReadDone(c, ok)
  \/ \E c \in DOMAIN calls, ok \in BOOLEAN : StartFirstFireDone(c, ok)
  \/ \E t \in DOMAIN timers : TimerTick(t)
  \/ \E key \in Keys, ok \in BOOLEAN : TickFireDone(key, ok)
  \/ \E key \in Keys, persist \in BOOLEAN : StopEventNagging(key, persist)
  \/ \E key \in Keys, ok \in BOOLEAN : StopWriteDone(key, ok)
  \/ Restart

\* The campaign engine and the stop-state store.
Spec == Init /\ [][Next]_vars

BridgeNext ==
  \/ Next
  \/ \E action \in ActionIds, data \in DataSet : RespDeliver(action, data)
  \/ \E ok \in BOOLEAN : RespWriteDone(ok)
  \/ \E ok \in BOOLEAN : RespDismissOneDone(ok)
  \/ \E ok \in BOOLEAN : RespDismissAllDone(ok)

\* The engine with the response listener registered.
BridgeSpec == Init /\ [][BridgeNext]_vars

\* The engine driven by the due watcher.
WatcherNext ==
  \/ AdvanceTime
  \/ StartDueEventWatcher
  \/ StopDueEventWatcher
  \/ \E state \in AppStates : AppStateChange(state)
  \/ WatcherTick
  \/ \E ok \in BOOLEAN : WatcherLoaded(ok)
  \/ \E c \in DOMAIN calls, ok \in BOOLEAN : StartCategoriesDone(c, ok)
  \/ \E c \in DOMAIN calls, ok \in BOOLEAN : StartReadDone(c, ok)
  \/ \E c \in DOMAIN calls, ok \in BOOLEAN : StartFirstFireDone(c, ok)
  \/ \E t \in DOMAIN timers : TimerTick(t)
  \/ \E key \in Keys, ok \in BOOLEAN : TickFireDone(key, ok)

WatcherSpec == Init /\ [][WatcherNext]_vars

\* The watcher's interval keeps firing, the clock advances, every I/O
\* completes, and the event store does not fail forever.
WatcherFairness ==
  /\ WF_vars(WatcherTick)
  /\ WF_vars(AdvanceTime)
  /\ SF_vars(WatcherLoaded(TRUE))
  /\ WF_vars(\E c \in DOMAIN calls, ok \in BOOLEAN : StartCategoriesDone(c, ok))
  /\ WF_vars(\E c \in DOMAIN calls, ok \in BOOLEAN : StartReadDone(c, ok))
  /\ WF_vars(\E c \in DOMAIN calls, ok \in BOOLEAN : StartFirstFireDone(c, ok))

WatcherFairSpec == WatcherSpec /\ WatcherFairness

\* The ticks of every running timer keep being delivered.
TickFairness == \A t \in TimerIds : WF_vars(TimerTick(t))

\* The campaign engine with its timers ticking.
FairSpec == Spec /\ TickFairness

\* A process with the scheduler's event store.
SchedInit ==
  /\ ProcessInit
  /\ eventShape = "alarm"
  /\ storeRule \in RepeatRules
  /\ storeDate \in BaseDates

SchedNext ==
  \/ AdvanceTime
  \/ \E id \in StoredIds : ScheduleEventNotification(id)
  \/ \E id \in RepeatIds : ScheduleRepeatingNotification(id)
  \/ ScheduleAllEventNotifications
  \/ \E ok \in BOOLEAN : AllLoaded(ok)
  \/ \E ok \in BOOLEAN : AllCancelled(ok)
  \/ \E ok \in BOOLEAN : OneCategoriesDone(ok)
  \/ \E ok \in BOOLEAN : OneCancelDone(ok)
  \/ \E ok \in BOOLEAN : OneScheduleDone(ok)
  \/ \E id \in RepeatIds, ok \in BOOLEAN : CancelEventNotification(id, ok)

\* The notification scheduler.
SchedSpec == SchedInit /\ [][SchedNext]_vars

\* The event store holds the alarm "e1" and the weekly event "s4" of today.
ReceivedInit ==
  /\ ProcessInit
  /\ eventShape = "alarm"
  /\ storeRule = "weekly"
  /\ storeDate = Today

ReceivedNext ==
  \/ AdvanceTime
  \/ ScheduleEventNotification("e1")
  \/ ScheduleRepeatingNotification("s4")
  \/ \E ok \in BOOLEAN : OneCategoriesDone(ok)
  \/ OneCancelDone(TRUE)
  \/ OneScheduleDone(TRUE)
  \/ \E x \in ReceivedIds, ok \in BOOLEAN : NotificationReceived(x, ok)
  \/ \E c \in DOMAIN calls, ok \in BOOLEAN : StartCategoriesDone(c, ok)
  \/ \E c \in DOMAIN calls, ok \in BOOLEAN : StartReadDone(c, ok)
  \/ \E c \in DOMAIN calls, ok \in BOOLEAN : StartFirstFireDone(c, ok)
  \/ \E key \in Keys : StopEventNagging(key, FALSE)

RescheduleNext ==
  \/ AdvanceTime
  \/ ScheduleRepeatingNotification("s4")
  \/ ScheduleAllEventNotifications
  \/ \E ok \in BOOLEAN : AllLoaded(ok)
  \/ \E ok \in BOOLEAN : AllCancelled(ok)
  \/ \E ok \in BOOLEAN : OneCategoriesDone(ok)
  \/ \E ok \in BOOLEAN : OneCancelDone(ok)
  \/ \E ok \in BOOLEAN : OneScheduleDone(ok)
  \/ \E cancelled \in BOOLEAN, ok \in BOOLEAN : ScheduleFestivalReminder(cancelled, ok)

\* The scheduler at application start, next to the special reminders.
RescheduleSpec == ReceivedInit /\ [][RescheduleNext]_vars

\* The event "e1" has any of its shapes.
EndTimeInit ==
  /\ eventShape \in EventShapes \cup OtherShapes
  /\ ModuleInit
  /\ storeRule = "weekly"
  /\ storeDate = Today

EndTimeNext ==
  \/ AdvanceTime
  \/ StartCall("e1")
  \/ \E c \in DOMAIN calls, ok \in BOOLEAN : StartCategoriesDone(c, ok)
  \/ \E c \in DOMAIN calls, ok \in BOOLEAN : StartReadDone(c, ok)
  \/ \E c \in DOMAIN calls, ok \in BOOLEAN : StartFirstFireDone(c, ok)
  \/ \E t \in DOMAIN timers : TimerTick(t)
  \/ \E key \in Keys, ok \in BOOLEAN : TickFireDone(key, ok)

\* Campaigns of an event of every shape, from their start to their expiry.
EndTimeSpec == EndTimeInit /\ [][EndTimeNext]_vars

PermissionNext ==
  \/ RequestNotificationPermission
  \/ \E status \in PermissionStatuses : PermissionGot(status)
  \/ \E status \in PermissionStatuses : PermissionAsked(status)
  \/ \E ok \in BOOLEAN : PermissionChannelDone(ok)
  \/ \E ok \in BOOLEAN : PermissionCategoriesDone(ok)
  \/ ScheduleEventNotification("s1")
  \/ \E ok \in BOOLEAN : OneCategoriesDone(ok)
  \/ \E ok \in BOOLEAN : OneCancelDone(ok)
  \/ \E ok \in BOOLEAN : OneScheduleDone(ok)
  \/ StartCall("e1")
  \/ \E c \in DOMAIN calls, ok \in BOOLEAN : StartCategoriesDone(c, ok)
  \/ \E c \in DOMAIN calls, ok \in BOOLEAN : StartReadDone(c, ok)
  \/ \E c \in DOMAIN calls, ok \in BOOLEAN : StartFirstFireDone(c, ok)

\* The permission request, the scheduler and the start of campaigns.
PermissionSpec == ReceivedInit /\ [][PermissionNext]_vars

\* The scheduler, the delivery of its notifications to the received
\* listener, and the campaigns the listener starts.
ReceivedSpec == ReceivedInit /\ [][ReceivedNext]_vars

\* ================================================================= claims
TimersOf(key) == {t \in DOMAIN timers : timers[t].key = key}

FireRequested == last.out \in {"firstFire", "fire"}

\* C1: in every reachable state at most one campaign timer runs per
\* occurrence key, whatever the interleaving of startEventNagging calls.
C1_OneCampaignPerKey == \A key \in Keys : Cardinality(TimersOf(key)) <= 1

\* C2: once stopOccurrenceNag(key, false) has returned, no fire is requested
\* for key any more (not by a tick, not by a start that was suspended).
C2_NoFireAfterStop == ~(FireRequested /\ last.afterStop)

\* C3: every fire request, the first one included, is issued strictly
\* before the campaign's endAt.
C3_NoFireAtOrAfterEndAt == ~(FireRequested /\ last.late)

\* C4: per occurrence key at most one fire request is outstanding at any
\* instant (first fires and tick fires together).
C4_OneOutstandingFire == \A key \in Keys : FirstFires(key) + fires[key] <= 1

\* A fresh process for key: the flag is persisted and not yet in memory
\* (within one process every persisted key is in memory before it is written).
FreshAndPersisted(key) == key \in storage /\ key \notin stoppedOccurrences

\* The call c returns as stopped from storage, having started nothing.
ReturnsStoppedFromStorage(c) ==
  /\ last'.op = "start" /\ last'.out = "stoppedStorage"
  /\ KeyOf(c.ev) \in stoppedOccurrences'
  /\ calls' = BagRemove(calls, c)
  /\ UNCHANGED <<activeNags, timers, fires>>

\* C5 as stated: in a fresh process whose store holds "1" for key, the
\* stop-flag read of startEventNagging always answers "stopped", caches the
\* key and the call starts nothing.
C5_Original_PersistedStopSurvivesRestart ==
  [][\A c \in DOMAIN calls, ok \in BOOLEAN :
       (FreshAndPersisted(KeyOf(c.ev)) /\ StartReadDone(c, ok))
         => ReturnsStoppedFromStorage(c)]_vars

\* C5 amended: the same, provided the read of the fresh process does not fail.
C5_PersistedStopSurvivesRestart ==
  [][\A c \in DOMAIN calls :
       (FreshAndPersisted(KeyOf(c.ev)) /\ StartReadDone(c, TRUE))
         => ReturnsStoppedFromStorage(c)]_vars

C5_Witness ==
  /\ last.op = "start" /\ last.out = "stoppedStorage" /\ last.added
  /\ last.key \in storage
  /\ last.key \in stoppedOccurrences
  /\ activeNags = <<>> /\ timers = <<>> /\ calls = <<>>

\* The calls for key that are past the in-memory stop check.
PastStopCheck(b, key) ==
  BagSum(b, {c \in DOMAIN b : c.pc \in {"read", "fire1"} /\ KeyOf(c.ev) = key})

\* No step of the running process removes a key from stoppedOccurrences or
\* a flag from storage.
StopFlagsKept ==
  last'.op # "restart" =>
    /\ stoppedOccurrences \subseteq stoppedOccurrences'
    /\ storage \subseteq storage'

\* While key is in stoppedOccurrences no call of startEventNagging for key
\* gets past the stop check: a call that is made, or that resumes from the
\* registration of the categories, returns there and changes nothing.
InMemoryFlagSuppresses ==
  \A id \in ReminderIds :
    KeyOf(id) \in stoppedOccurrences =>
      /\ PastStopCheck(calls', KeyOf(id)) <= PastStopCheck(calls, KeyOf(id))
      /\ (StartCall(id) /\ notificationCategoriesInitialized)
           => /\ last'.out = "stoppedMemory"
              /\ UNCHANGED <<activeNags, timers, fires, calls>>
      /\ \A c \in DOMAIN calls, ok \in BOOLEAN :
           (c.ev = id /\ StartCategoriesDone(c, ok))
             => /\ last'.out = "stoppedMemory"
                /\ calls' = BagRemove(calls, c)
                /\ UNCHANGED <<activeNags, timers, fires>>

\* C6 as stated: once the flag of key is set, in memory or persisted, every
\* later call of startEventNagging for key creates no entry, no timer and
\* no fire request, and no flag is ever removed.  (A flag that is persisted
\* but not in memory was set before the process started, so every call in
\* flight then is a later one.)
C6_Original_StopFlagSuppressesLaterStarts ==
  [][/\ StopFlagsKept
     /\ InMemoryFlagSuppresses
     /\ \A c \in DOMAIN calls, ok \in BOOLEAN :
          (FreshAndPersisted(KeyOf(c.ev)) /\ StartReadDone(c, ok))
            => /\ UNCHANGED <<activeNags, timers, fires>>
               /\ PastStopCheck(calls', KeyOf(c.ev)) < PastStopCheck(calls, KeyOf(c.ev))]_vars

\* C6 amended: the same for a flag in memory; for a flag that is only
\* persisted, provided the read of the flag does not fail.
C6_StopFlagSuppressesLaterStarts ==
  [][/\ StopFlagsKept
     /\ InMemoryFlagSuppresses
     /\ \A c \in DOMAIN calls :
          (FreshAndPersisted(KeyOf(c.ev)) /\ StartReadDone(c, TRUE))
            => /\ UNCHANGED <<activeNags, timers, fires>>
               /\ PastStopCheck(calls', KeyOf(c.ev)) < PastStopCheck(calls, KeyOf(c.ev))]_vars

C6_Witness ==
  /\ last.op = "start" /\ last.out = "stoppedMemory"
  /\ last.key \in stoppedOccurrences
  /\ last.key \in stopReturned
  /\ last.key \notin storage
  /\ last.key \notin DOMAIN activeNags

\* C7: when the stop of the response handler has completed, the key has no
\* campaign entry, is in stoppedOccurrences and, if the write succeeded, is
\* persisted; the handler is then at its dismissal.
C7_BridgeStopsAndPersists ==
  last.op = "respStopDone" =>
    /\ last.key \notin DOMAIN activeNags
    /\ last.key \in stoppedOccurrences
    /\ (last.out = "ok" => last.key \in storage)
    /\ resp.pc \in {"dismissOne", "dismissAll"}

\* C8 as stated: every default-tap response ends with one call of the
\* navigation callback.
C8_Original_NavigatesOncePerDefaultTap ==
  [][\A ok \in BOOLEAN :
       (resp.action = DEFAULT_ACTION_IDENTIFIER /\ RespDismissAllDone(ok))
         => last'.out = "nav"]_vars

\* C8 amended: the callback is called once, with (eventId, date) of the
\* data, at the end of a default-tap response whose data carries an
\* eventId, after the stop (if any) completed and dismissAll was attempted,
\* whether it failed or not; it is called in no other step, so never for
\* the stop action and never for data without eventId.
C8_NavigatesOncePerDefaultTapWithEventId ==
  [][/\ \A ok \in BOOLEAN :
          RespDismissAllDone(ok) =>
            /\ last'.out = "nav" <=>
                 (resp.action = DEFAULT_ACTION_IDENTIFIER /\ resp.eventId # Undefined)
            /\ last'.out = "nav" => last'.key = <<resp.eventId, resp.date>>
     /\ last'.out = "nav" =>
          /\ resp.pc = "dismissAll" /\ resp'.pc = "idle"
          /\ resp.action = DEFAULT_ACTION_IDENTIFIER
          /\ resp.key # NoKey => resp.key \in stoppedOccurrences]_vars

C8_Witness ==
  /\ last.op = "respDone" /\ last.out = "nav"
  /\ last.key = <<"e1", Today>>
  /\ resp.pc = "idle"
  /\ KeyOf("e1") \in stoppedOccurrences

\* The steps a call c of startEventNagging takes after the call itself.
StepOfCall(c) ==
  \E ok \in BOOLEAN :
    StartCategoriesDone(c, ok) \/ StartReadDone(c, ok) \/ StartFirstFireDone(c, ok)

\* C9: a call of startEventNagging made when (a) the event has no reminder,
\* (b) the occurrence has an entry in activeNags or (c) its stop flag is in
\* memory is a no-op: neither the call nor any of its later steps requests
\* a fire, creates a timer or changes activeNags or stoppedOccurrences.
C9_NoOpStartChangesNothing ==
  [][/\ \A id \in EventIds :
          (StartCall(id) /\ PreconditionFails(id))
            => UNCHANGED <<activeNags, timers, fires, stoppedOccurrences>>
     /\ \A c \in DOMAIN calls :
          (c.noop /\ StepOfCall(c))
            => /\ UNCHANGED <<activeNags, timers, fires, stoppedOccurrences>>
               /\ \A key \in Keys : FirstFires(key)' <= FirstFires(key)]_vars

StopSteps == {"stop", "respStop"}

\* C10: a stop, the first or a repeated one, from the expiry path or from a
\* caller, ends with no campaign entry and no running timer for the key and
\* with the key in stoppedOccurrences.
C10_StopLeavesStoppedState ==
  (last.op \in StopSteps \/ (last.op = "tick" /\ last.out = "expired")) =>
    /\ last.key \notin DOMAIN activeNags
    /\ TimersOf(last.key) = {}
    /\ last.key \in stoppedOccurrences

\* C11 as stated: stopEventNagging for a key without an entry in activeNags
\* leaves activeNags, stoppedOccurrences and the persisted flags (the write
\* it may start included) as they were.
C11_Original_StopOfNoCampaignChangesNothing ==
  [][\A key \in Keys, persist \in BOOLEAN :
       (key \notin DOMAIN activeNags /\ StopEventNagging(key, persist))
         => UNCHANGED <<activeNags, stoppedOccurrences, storage, pendingWrites>>]_vars

\* C11 amended: stopEventNagging for a key without an entry leaves
\* activeNags, the timers and the calls and fires in flight as they were,
\* but it does add the key to stoppedOccurrences and, with persist, starts
\* the write of the flag; it changes nothing at all only when the key is
\* already in stoppedOccurrences and persist is false.
C11_StopOfNoCampaignOnlySetsFlag ==
  [][\A key \in Keys, persist \in BOOLEAN :
       (key \notin DOMAIN activeNags /\ StopEventNagging(key, persist))
         => /\ UNCHANGED <<activeNags, timers, calls, fires, storage>>
            /\ stoppedOccurrences' = stoppedOccurrences \cup {key}
            /\ pendingWrites' = IF persist THEN pendingWrites \cup {key} ELSE pendingWrites]_vars

C11_Witness ==
  /\ last.op = "stop" /\ last.out = "memory" /\ last.added
  /\ last.key \in stoppedOccurrences
  /\ ~notificationCategoriesInitialized
  /\ activeNags = <<>> /\ timers = <<>> /\ calls = <<>>
  /\ storage = {} /\ pendingWrites = {}

\* The tick of timer t sees now >= endAt.
ExpiryTick(t) == TimerTick(t) /\ now >= timers[t].endAt

\* The expiry stops without persisting: the entry of the key is removed, its
\* timer cleared, the key flagged in memory and nothing written.
ExpiryStopsWithoutPersisting ==
  \A t \in DOMAIN timers :
    ExpiryTick(t) =>
      LET key == timers[t].key
      IN  /\ last'.op = "tick" /\ last'.out = "expired"
          /\ key \notin DOMAIN activeNags'
          /\ key \in DOMAIN activeNags => activeNags[key].timer \notin DOMAIN timers'
          /\ key \in stoppedOccurrences'
          /\ UNCHANGED <<storage, pendingWrites, fires, calls>>

\* A call of startEventNagging(id) made right after the expiry of its key,
\* with the categories registered and no flag persisted.
StartAfterExpiry(id) ==
  /\ last.op = "tick" /\ last.out = "expired" /\ last.key = KeyOf(id)
  /\ KeyOf(id) \notin storage
  /\ notificationCategoriesInitialized
  /\ StartCall(id)

\* C12 as stated: the expiry stops without persisting, and a later
\* startEventNagging for the key in the same process, no flag being
\* persisted, gets past the stop check and starts a new campaign.
C12_Original_ExpiryPermitsNewCampaign ==
  [][/\ ExpiryStopsWithoutPersisting
     /\ \A id \in ReminderIds :
          StartAfterExpiry(id)
            => PastStopCheck(calls', KeyOf(id)) > PastStopCheck(calls, KeyOf(id))]_vars

\* C12 amended: the expiry stops without persisting, and it leaves the key
\* in stoppedOccurrences, so a later startEventNagging for the key in the
\* same process returns at the stop check and starts nothing.
C12_ExpiryStopsAndFlagsInMemory ==
  [][/\ ExpiryStopsWithoutPersisting
     /\ \A id \in ReminderIds :
          StartAfterExpiry(id)
            => /\ last'.out = "stoppedMemory"
               /\ UNCHANGED <<activeNags, timers, fires, calls, stoppedOccurrences>>]_vars

C12_Witness ==
  /\ last.op = "tick" /\ last.out = "expired" /\ last.added
  /\ last.key \notin DOMAIN activeNags
  /\ last.key \in stoppedOccurrences
  /\ last.key \notin storage
  /\ pendingWrites = {}
  /\ TimersOf(last.key) = {}

\* notifyTime <= now < endAt, the window of the watcher
InWindow(event) ==
  /\ buildNotifyTime(event) <= now
  /\ now < calculateNagEndTime(event, now)

\* The watcher runs, the app is in the foreground within the window of the
\* event, and its occurrence is not stopped.
WatcherDue(id) ==
  /\ dueWatcherTimer /\ watchTimers > 0
  /\ appState = "active"
  /\ InWindow(Event(id))
  /\ KeyOf(id) \notin stoppedOccurrences
  /\ KeyOf(id) \notin storage

\* C13: while the watcher runs with the app in the foreground inside the
\* window of a not stopped occurrence, a campaign for it is eventually
\* started (unless one of these conditions ends first).
C13_WatcherEventuallyStarts ==
  \A id \in ReminderIds :
    WatcherDue(id) ~> (KeyOf(id) \in DOMAIN activeNags \/ ~WatcherDue(id))

\* A check that has loaded the events calls startEventNagging.
CallMade == calls' # calls \/ last'.op = "start"

\* C14: a check that has loaded the events of today calls startEventNagging
\* for the event with a reminder if and only if notifyTime <= now < endAt.
C14_WatcherWindowClosedAtNotifyTime ==
  [][WatcherLoaded(TRUE) => (CallMade <=> InWindow(Event("e1")))]_vars

\* C15: a tick of the watcher that runs while the app is not in the
\* foreground begins no load of the events.
C15_NoCheckInBackground ==
  [][(WatcherTick /\ appState # "active") => checks' = checks]_vars

\* The handles and the registrations agree with the module's variables.
WatcherSingleton ==
  /\ watchTimers = (IF dueWatcherTimer THEN 1 ELSE 0)
  /\ listeners = (IF appStateSubscription THEN 1 ELSE 0)
  /\ dueWatcherTimer <=> appStateSubscription

\* C16: there is at most one watcher timer and one app-state listener;
\* startDueEventWatcher while running changes nothing, otherwise it creates
\* exactly one timer and one listener; stopDueEventWatcher clears both and
\* changes nothing when the watcher is not running.
C16_WatcherSingleton ==
  [][/\ WatcherSingleton /\ WatcherSingleton'
     /\ StartDueEventWatcher =>
          /\ dueWatcherTimer => UNCHANGED watcherVars
          /\ watchTimers' = 1 /\ listeners' = 1
     /\ StopDueEventWatcher =>
          /\ watchTimers' = 0 /\ listeners' = 0
          /\ ~dueWatcherTimer => UNCHANGED watcherVars]_vars

C16_Witness ==
  /\ last.op = "watcher" /\ last.out = "started"
  /\ watchTimers = 1 /\ listeners = 1
  /\ dueWatcherTimer /\ appStateSubscription
  /\ checks = 1

\* The event has no reminder configured, or its notify time is before now.
Skipped(event) == NoReminder(event) \/ buildNotifyTime(event) < now

\* C17: scheduleEventNotification for an event without reminder, or whose
\* notify time is before now, returns without any request to the adapter
\* (no category registration, no cancel, no schedule) and leaves the
\* scheduled notifications unchanged.
C17_SkipIssuesNoAdapterCall ==
  [][\A id \in StoredIds :
       (ScheduleEventNotification(id) /\ Skipped(StoredEvent(id)))
         => /\ job'.pc = "done"
            /\ scheduled' = scheduled]_vars

\* The scheduled notifications whose data name the event id.
ScheduledFor(id) == {x \in DOMAIN scheduled : scheduled[x].eventId = id}

\* The event ids scheduleEventNotification can be called with.
ScheduledIds == StoredIds \cup {TempEvent(StoredEvent("s4"), n).id : n \in 0..(MaxOccurrences - 1)}

\* 09:00 of the event's date when it has no time, minus the offset.
NotifyTimeOf(event) ==
  DayStart(event.date)
    + (IF event.time = {} THEN 9 * 60 ELSE CHOOSE t \in event.time : TRUE)
    - (CHOOSE n \in event.remindOffsetMin : TRUE)

\* C18: scheduleEventNotification for an event with remindOffsetMin >= 0 and
\* a notify time not before now requests the cancel of "event-"+id, and only
\* when that has completed requests one notification with identifier
\* "event-"+id, trigger eventDateTime - remindOffsetMin (09:00 of the date
\* for an event without time) and data {eventId, date, occurrenceKey}; in
\* every state at most one scheduled notification exists per event id.
C18_CancelThenScheduleOne ==
  [][/\ \A id \in StoredIds :
          (ScheduleEventNotification(id) /\ notificationCategoriesInitialized
             /\ ~Skipped(StoredEvent(id)))
            => job'.pc = "cancel" /\ job'.ev = StoredEvent(id)
     /\ \A ok \in BOOLEAN :
          (OneCategoriesDone(ok) /\ ~Skipped(job.ev))
            => job'.pc = "cancel" /\ job'.ev = job.ev
     /\ job.pc = "cancel" => ~NoReminder(job.ev)
     /\ \A ok \in BOOLEAN :
          OneCancelDone(ok) => job'.pc = "schedule" /\ job'.ev = job.ev
     /\ (job'.pc = "schedule" /\ job.pc # "schedule")
          => /\ job.pc = "cancel" /\ job'.ev = job.ev
             /\ scheduled' \in {scheduled, MapRemove(scheduled, "event-" \o job.ev.id)}
     /\ OneCancelDone(TRUE) => ("event-" \o job.ev.id) \notin DOMAIN scheduled'
     /\ OneScheduleDone(TRUE)
          => scheduled' =
               MapPut(scheduled, "event-" \o job.ev.id,
                      [eventId |-> job.ev.id, date |-> job.ev.date,
                       occurrenceKey |-> getOccurrenceKey(job.ev.id, job.ev.date),
                       at |-> NotifyTimeOf(job.ev)])
     /\ \A id \in ScheduledIds : Cardinality(ScheduledFor(id)') <= 1]_vars

\* Tomorrow's event without time is scheduled for 09:00 of tomorrow, next to
\* another event's notification.
C18_Witness ==
  /\ job.op = "one" /\ job.pc = "done"
  /\ "event-s1" \in DOMAIN scheduled
  /\ scheduled["event-s1"] =
       [eventId |-> "s1", date |-> "2024-01-02",
        occurrenceKey |-> <<"s1", "2024-01-02">>, at |-> 24 * 60]
  /\ Cardinality(DOMAIN scheduled) > 1

\* The date n units of the rule after the base date.
AdvancedDate(rule, date, n) ==
  LET base == ParseDate(date)
  IN  FormatDate(CASE rule = "daily" -> AddDays(base, n)
                   [] rule = "weekly" -> AddDays(base, 7 * n)
                   [] rule = "monthly" -> AddMonths(base, n)
                   [] OTHER -> AddYears(base, n))

\* The calls of scheduleEventNotification a finished fan-out of event has made.
FanOutMade(event) ==
  IF event.repeatRule \in {"daily", "weekly", "monthly", "yearly"}
  THEN /\ Len(job.made) = MaxOccurrences
       /\ \A n \in 0..(MaxOccurrences - 1) :
            job.made[n + 1] =
              [event EXCEPT !.id = event.id \o "-repeat-" \o ToString(n),
                            !.date = AdvancedDate(event.repeatRule, event.date, n)]
  ELSE job.made = <<event>>

\* The example: weekly from 2024-01-01 gives 2024-01-01, 2024-01-08, 2024-01-15.
WeeklyExample ==
  (storeRule = "weekly" /\ storeDate = "2024-01-01") =>
    /\ <<job.made[1].id, job.made[1].date>> = <<"s4-repeat-0", "2024-01-01">>
    /\ <<job.made[2].id, job.made[2].date>> = <<"s4-repeat-1", "2024-01-08">>
    /\ <<job.made[3].id, job.made[3].date>> = <<"s4-repeat-2", "2024-01-15">>

\* C19: when scheduleRepeatingNotification(event, N) has returned it has
\* called scheduleEventNotification exactly N times for a daily, weekly,
\* monthly or yearly event, the n-th time (n = 0..N-1) with the id
\* "<id>-repeat-<n>" and the base date advanced by n units of the rule, and
\* exactly once, with the event itself, when the rule is none or absent.
C19_RepeatingFanOut ==
  (job.op = "repeat" /\ job.pc = "done") =>
    \E id \in RepeatIds :
      /\ FanOutMade(StoredEvent(id))
      /\ id = "s4" => WeeklyExample

C19_Witness ==
  /\ job.op = "repeat" /\ job.pc = "done"
  /\ storeRule = "monthly" /\ storeDate = "2024-01-31"
  /\ Len(job.made) = MaxOccurrences
  /\ <<job.made[2].id, job.made[2].date>> = <<"s4-repeat-1", "2024-02-29">>
  /\ "event-s4-repeat-1" \in DOMAIN scheduled

\* The stored event "s4" repeats and is not before today.
RepeatingFutureEvent ==
  /\ storeRule \in {"daily", "weekly", "monthly", "yearly"}
  /\ IsFutureEvent(StoredEvent("s4"))

\* C20: when scheduleAllEventNotifications has run to its end, a stored
\* repeating event with date >= today has been passed on as by
\* scheduleRepeatingNotification: scheduleEventNotification was called for
\* each occurrence of its fan-out.
C20_RescheduleAllRestoresFanOut ==
  (job.op = "all" /\ job.pc = "done" /\ RepeatingFutureEvent) =>
    \A n \in 0..(MaxOccurrences - 1) :
      \E k \in 1..Len(job.made) :
        /\ job.made[k].id = "s4-repeat-" \o ToString(n)
        /\ job.made[k].date = AdvancedDate(storeRule, storeDate, n)

\* startEventNagging was called for the occurrence key in this step.
StartCalledFor(key) ==
  \/ last'.op = "start" /\ last'.key = key
  \/ \E c \in DOMAIN calls' :
       /\ getOccurrenceKey(c.ev, Event(c.ev).date) = key
       /\ (c \notin DOMAIN calls \/ calls'[c] > calls[c])

\* The occurrence is not stopped and has no campaign.
Startable(key) ==
  /\ key \notin stoppedOccurrences
  /\ key \notin storage
  /\ key \notin DOMAIN activeNags

\* C21: when a notification scheduled by scheduleEventNotification, directly
\* or by the fan-out of scheduleRepeatingNotification, is delivered and the
\* received listener runs (its lookup not failing), startEventNagging is
\* called for the occurrence key attached to the notification, provided that
\* occurrence is not stopped and has no campaign.
C21_DeliveryStartsCampaign ==
  [][\A x \in ReceivedIds :
       (NotificationReceived(x, TRUE) /\ Startable(scheduled[x].occurrenceKey))
         => StartCalledFor(scheduled[x].occurrenceKey)]_vars

\* C22: no failure of the notification adapter, of AsyncStorage or of the
\* event store escapes startEventNagging, stopEventNagging,
\* scheduleEventNotification or the watcher's check: none of them ends with
\* a rejected promise.
C22_NoFailureEscapes == last.out # "rejected"

\* A schedule request, or a fire request, is issued to the adapter in this step.
AdapterRequested ==
  \/ job'.pc = "schedule" /\ job.pc # "schedule"
  \/ last'.out \in {"firstFire", "fire"} /\ (calls' # calls \/ fires' # fires)

\* C23: once requestNotificationPermission has returned false, no call of
\* scheduleEventNotification (alone, or made by the fan-out or by
\* scheduleAllEventNotifications) or of startEventNagging issues a schedule
\* or a fire request to the adapter.
C23_NoRequestAfterPermissionRefused ==
  [][permission.result = "false" => ~AdapterRequested]_vars

\* The tick of timer t finds nothing that keeps it from firing: it runs
\* before endAt, sees no stop, and the entry is there and not sending.
TickMayFire(t) ==
  LET key == timers[t].key
  IN  /\ now < timers[t].endAt
      /\ key \notin stoppedOccurrences
      /\ key \in DOMAIN activeNags
      /\ ~activeNags[key].sending

\* C24: a fire that fails does not end the campaign.  After a failed first
\* fire the entry and its timer are created as after a successful one; a
\* failed tick fire leaves the timers and the entry as they are and clears
\* the sending flag; and a tick before endAt that sees no stop then
\* requests a new fire.
C24_FireFailureKeepsCampaign ==
  [][/\ \A c \in DOMAIN calls :
          StartFirstFireDone(c, FALSE)
            => /\ KeyOf(c.ev) \in DOMAIN activeNags'
               /\ activeNags'[KeyOf(c.ev)].timer \in DOMAIN timers'
               /\ ~activeNags'[KeyOf(c.ev)].sending
               /\ activeNags'[KeyOf(c.ev)].endAt = c.endAt
     /\ \A key \in Keys :
          TickFireDone(key, FALSE)
            => /\ timers' = timers
               /\ DOMAIN activeNags' = DOMAIN activeNags
               /\ key \in DOMAIN activeNags
                    => /\ ~activeNags'[key].sending
                       /\ activeNags'[key].timer = activeNags[key].timer
                       /\ activeNags'[key].endAt = activeNags[key].endAt
     /\ \A t \in DOMAIN timers :
          (TimerTick(t) /\ TickMayFire(t))
            => /\ last'.out = "fire"
               /\ fires'[timers[t].key] = fires[timers[t].key] + 1]_vars

\* A tick fire has just failed; the campaign is still there, before its
\* endAt, with the sending flag cleared.
C24_Witness ==
  /\ last.op = "tickFire" /\ last.out = "failed"
  /\ last.key \in DOMAIN activeNags
  /\ ~activeNags[last.key].sending
  /\ activeNags[last.key].timer \in DOMAIN timers
  /\ now < activeNags[last.key].endAt
  /\ last.key \notin stoppedOccurrences

\* C25: storage errors are not propagated.  A failed read of the flag of a
\* key that is not in the in-memory set answers "not stopped": the key is
\* not added to the set and the start goes on to the Active check.  A
\* failed write of stopEventNagging(.., true) completes the stop with the
\* key in the in-memory set and nothing written.
C25_StopStoreFailsOpen ==
  [][/\ \A c \in DOMAIN calls :
          (StartReadDone(c, FALSE) /\ KeyOf(c.ev) \notin stoppedOccurrences)
            => /\ stoppedOccurrences' = stoppedOccurrences
               /\ last'.op = "start" /\ last'.out \in {"active", "firstFire"}
     /\ \A key \in Keys :
          StopWriteDone(key, FALSE)
            => /\ key \in stoppedOccurrences'
               /\ key \notin pendingWrites'
               /\ UNCHANGED <<storage, stoppedOccurrences, activeNags, timers>>]_vars

\* The write of a persisted stop has just failed: the key was stopped by
\* no other way, is in the in-memory set and is not in storage.
C25_Witness ==
  \E key \in Keys :
    /\ key \in stoppedOccurrences
    /\ key \notin storage
    /\ key \notin pendingWrites
    /\ key \notin stopReturned
    /\ last = NoLast

\* C26: stopEventNagging(.., true) clears the timer, deletes the entry and
\* adds the key to the in-memory set in the step that issues the write,
\* with nothing written yet; while the write is pending the key is in the
\* set, so that a tick requests no fire and the stop check of a start
\* answers "stopped"; a write that fails leaves the key in the set.
C26_MemoryStopPrecedesWrite ==
  [][/\ \A key \in Keys :
          StopEventNagging(key, TRUE)
            => /\ key \in stoppedOccurrences'
               /\ key \notin DOMAIN activeNags'
               /\ key \in DOMAIN activeNags => activeNags[key].timer \notin DOMAIN timers'
               /\ key \in pendingWrites'
               /\ storage' = storage
     /\ \A key \in pendingWrites : key \in stoppedOccurrences
     /\ \A t \in DOMAIN timers :
          (TimerTick(t) /\ timers[t].key \in pendingWrites)
            => /\ last'.out \in {"expired", "stopSeen"}
               /\ fires' = fires
     /\ \A id \in ReminderIds :
          (StartCall(id) /\ notificationCategoriesInitialized /\ KeyOf(id) \in pendingWrites)
            => last'.out = "stoppedMemory" /\ calls' = calls
     /\ \A c \in DOMAIN calls, ok \in BOOLEAN :
          (StartCategoriesDone(c, ok) /\ KeyOf(c.ev) \in pendingWrites)
            => last'.out = "stoppedMemory"
     /\ \A key \in Keys :
          StopWriteDone(key, FALSE) => key \in stoppedOccurrences']_vars

\* A tick runs while the write of the stop is pending and sees the stop.
C26_Witness ==
  /\ last.op = "tick" /\ last.out = "stopSeen"
  /\ last.key \in pendingWrites
  /\ last.key \notin storage

\* The end of a campaign of event that starts at time t: the end in the
\* payload for a schedule whose payload parses, has endDate and endTime, is
\* not all-day and gives a valid date-time; five minutes after t otherwise.
ExpectedEndAt(event, t) ==
  IF /\ event.type = "schedule"
     /\ event.payload.present /\ event.payload.json
     /\ event.payload.hasEndDate /\ event.payload.hasEndTime
     /\ ~event.payload.isAllDay /\ event.payload.endValid
  THEN event.payload.end
  ELSE t + 5

\* The calls that await their first fire with the end endAt.
FirstFiresWith(b, endAt) ==
  BagSum(b, {c \in DOMAIN b : c.pc = "fire1" /\ c.endAt = endAt})

\* C27: the endAt of a campaign is the end of the payload exactly for a
\* time range, and otherwise the time the campaign starts plus 5 minutes
\* (not the notify time plus 5 minutes); it is computed when the campaign
\* starts, becomes the endAt of the entry and of the timer, and is the value
\* every tick of that timer compares with now.
C27_EndAtFixedAtStart ==
  [][/\ \A c \in DOMAIN calls, ok \in BOOLEAN :
          (StartReadDone(c, ok) /\ last'.out = "firstFire")
            => LET endAt == ExpectedEndAt(Event(c.ev), now)
               IN  FirstFiresWith(calls', endAt) = FirstFiresWith(calls, endAt) + 1
     /\ \A c \in DOMAIN calls, ok \in BOOLEAN :
          StartFirstFireDone(c, ok)
            => /\ activeNags'[KeyOf(c.ev)].endAt = c.endAt
               /\ timers'[activeNags'[KeyOf(c.ev)].timer].endAt = c.endAt
     /\ \A t \in DOMAIN timers :
          /\ t \in DOMAIN timers' => timers'[t].endAt = timers[t].endAt
          /\ TimerTick(t) => (last'.out = "expired" <=> now >= timers[t].endAt)]_vars

\* A campaign of an all-day schedule that started at minute 5 runs with
\* endAt 10, though its payload ends at 5 and its notify time is 0.
C27_Witness ==
  /\ eventShape = "allDay"
  /\ KeyOf("e1") \in DOMAIN activeNags
  /\ activeNags[KeyOf("e1")].endAt = 10
  /\ buildNotifyTime(Event("e1")) = 0
  /\ last.op = "tick" /\ last.out = "fire"

\* The timers that were created for key and are still running.
RunningTimers(key) == {t \in DOMAIN timers : timers[t].key = key}

\* C28: while ticks keep being delivered every timer is eventually cleared
\* and its entry removed: once the key is stopped or its endAt has passed,
\* no timer created for the key keeps running.
C28_EveryTimerIsCleared ==
  \A key \in Keys :
    (RunningTimers(key) # {}
       /\ (key \in stoppedOccurrences \/ \A t \in RunningTimers(key) : now >= timers[t].endAt))
      ~> (RunningTimers(key) = {})

\* The fan-out notifications of the stored event id that are scheduled.
FanOutScheduled(id) ==
  {x \in DOMAIN scheduled :
     \E n \in 0..(MaxOccurrences - 1) : x = "event-" \o id \o "-repeat-" \o ToString(n)}

\* C29: cancelEventNotification(id) removes at most the notification with
\* identifier "event-"+id and changes no other one, the fan-out
\* "event-<id>-repeat-<n>" included; it completes the same way when there
\* is nothing to cancel and when the adapter fails.
C29_CancelOnlyOwnIdentifier ==
  [][\A id \in RepeatIds, ok \in BOOLEAN :
       CancelEventNotification(id, ok)
         => /\ DOMAIN scheduled \ {"event-" \o id} \subseteq DOMAIN scheduled'
            /\ DOMAIN scheduled' \subseteq DOMAIN scheduled
            /\ \A x \in DOMAIN scheduled' : scheduled'[x] = scheduled[x]
            /\ ok => ("event-" \o id) \notin DOMAIN scheduled'
            /\ FanOutScheduled(id)' = FanOutScheduled(id)
            /\ job' = job]_vars

\* After scheduleRepeatingNotification and cancelEventNotification for the
\* repeating event, its fan-out is still scheduled.
C29_Witness ==
  /\ last.op = "cancel" /\ last.out = "cancelled" /\ last.key = <<"s4", "">>
  /\ job.op = "repeat" /\ job.pc = "done"
  /\ "event-s4" \notin DOMAIN scheduled
  /\ Cardinality(FanOutScheduled("s4")) = MaxOccurrences

\* The identifiers of the event notifications a run of
\* scheduleAllEventNotifications that ends now would have to leave.
ExpectedIds ==
  {getNotificationId(FutureEvents[n].id) :
     n \in {m \in 1..Len(FutureEvents) :
              /\ ~NoReminder(FutureEvents[m])
              /\ buildNotifyTime(FutureEvents[m]) >= now}}

\* A run of scheduleAllEventNotifications reaches the end of its loop.
RescheduleCompletes ==
  /\ job.op = "all" /\ job.pc \notin {"idle", "done", "failed"}
  /\ job'.op = "all" /\ job'.pc = "done"

\* C30 as stated: when scheduleAllEventNotifications completes, the scheduled
\* set is exactly the event notifications of the stored events with
\* date >= today, a configured reminder and a notify time not in the past.
C30_ExactlyFutureEvents ==
  [][RescheduleCompletes => DOMAIN scheduled' = ExpectedIds']_vars

\* C30: the cancel-all of scheduleAllEventNotifications leaves nothing
\* scheduled, special reminders included; when getAllEvents or the cancel-all
\* throws, nothing is removed and nothing is created; every event of the
\* store with date >= today is passed to scheduleEventNotification; a
\* schedule is requested only for one with a configured reminder and a notify
\* time not in the past, and the notification a successful request creates is
\* "event-<id>" with that time as its trigger, while a failed request creates
\* none.
C30_CancelAllThenFutureEvents ==
  [][/\ AllCancelled(TRUE) => scheduled' = <<>>
     /\ (AllLoaded(FALSE) \/ AllCancelled(FALSE))
          => scheduled' = scheduled /\ job'.pc = "failed"
     /\ RescheduleCompletes => job'.made = FutureEvents
     /\ (job'.op = "all" /\ job'.pc = "cancel" /\ job.pc # "cancel")
          => /\ \E n \in 1..Len(FutureEvents) : job'.ev = FutureEvents[n]
             /\ ~NoReminder(job'.ev)
             /\ buildNotifyTime(job'.ev) >= now
     /\ (job.op = "all" /\ OneScheduleDone(TRUE))
          => scheduled' = MapPut(scheduled, "event-" \o job.ev.id,
                                 [eventId |-> job.ev.id, date |-> job.ev.date,
                                  occurrenceKey |-> <<job.ev.id, job.ev.date>>,
                                  at |-> buildNotifyTime(job.ev)])
     /\ (job.op = "all" /\ OneScheduleDone(FALSE)) => scheduled' = scheduled]_vars

\* A run whose cancel-all removed a special reminder has completed, and what
\* is scheduled is the notifications of tomorrow's event and of today's
\* weekly event.
C30_Witness ==
  /\ last.op = "cancelAll" /\ last.out = "special"
  /\ job.op = "all" /\ job.pc = "done"
  /\ DOMAIN scheduled = {"event-s1", "event-s4"}

====
